---- MODULE Spec2Model ----
(***************************************************************************)
(* The class notebook (src/class-notebook.ipynb) as a state machine.       *)
(* The state is the kernel's namespace (the names the cells bind), the CSV *)
(* file the first data cell reads, and the exception that ended the run.   *)
(* Every code cell is one action; cells may be run in any order, and a     *)
(* cell that raises ends the run.                                          *)
(***************************************************************************)
EXTENDS Integers, Sequences, FiniteSets, TLC

VARIABLES csv, ns, err

vars == <<csv, ns, err>>

(***************************************************************************)
(* Bounds of the model.                                                    *)
(***************************************************************************)
\* a table holds at most MaxRows rows and at most MaxCells data cells (rows
\* times data columns)
MaxRows == 2
MaxCells == 4
\* the numeric cells of a table are 0..MaxVal
MaxVal == 1

\* pandas' missing value: what read_csv gives an empty field, what dropna drops
NaN == -1

CellValues == {NaN} \cup (0..MaxVal)

(***************************************************************************)
(* Small helpers on sequences.                                             *)
(***************************************************************************)
Range(s) == {s[i] : i \in 1..Len(s)}

IndexOf(s, x) == CHOOSE i \in 1..Len(s) : s[i] = x

RemoveAt(s, k) == [i \in 1..(Len(s) - 1) |-> IF i < k THEN s[i] ELSE s[i + 1]]

\* the subsequence of s at the positions of keep, in order
RECURSIVE SelectIdx(_, _, _)
SelectIdx(s, keep, i) ==
    IF i > Len(s) THEN << >>
    ELSE IF i \in keep THEN <<s[i]>> \o SelectIdx(s, keep, i + 1)
    ELSE SelectIdx(s, keep, i + 1)

(***************************************************************************)
(* The namespace of the kernel: a function from the bound names to values. *)
(***************************************************************************)
Bound(n) == n \in DOMAIN ns

Bind(space, n, v) ==
    [m \in (DOMAIN space) \cup {n} |-> IF m = n THEN v ELSE space[m]]

NoErr == [cell |-> "", exc |-> "", what |-> ""]

Raise(cell, exc, what) == [cell |-> cell, exc |-> exc, what |-> what]

Running == err = NoErr

(***************************************************************************)
(* The CSV files: a header whose first field is the row-index column, and  *)
(* rows of one index field followed by the data fields.                    *)
(***************************************************************************)
IndexName == "Unnamed: 0"

Headers ==
    { <<"score">>,
      <<"score", "siblings">>,
      <<"male", "score">>,
      <<"siblings", "male">>,
      <<"siblings", "score", "male">> }

Min(a, b) == IF a < b THEN a ELSE b

RowsFor(h) == 0..Min(MaxRows, MaxCells \div Len(h))

CsvFiles ==
    UNION { UNION { { [header |-> <<IndexName>> \o h,
                       rows   |-> [i \in 1..n |-> <<i>> \o body[i]]] :
                      body \in [1..n -> [1..Len(h) -> CellValues]] } :
                    n \in RowsFor(h) } :
            h \in Headers }

(***************************************************************************)
(* pandas: read_csv(index_col=0), dropna, astype(float), pop, shape.       *)
(***************************************************************************)
\* the inferred dtype of a column: integers unless a field is missing
InferDtype(rows, j) ==
    IF \E i \in 1..Len(rows) : rows[i][j] = NaN THEN "float64" ELSE "int64"

read_csv(file) ==
    LET cols == Tail(file.header)
        data == [i \in 1..Len(file.rows) |-> Tail(file.rows[i])]
    IN  [columns |-> cols,
         index   |-> [i \in 1..Len(file.rows) |-> Head(file.rows[i])],
         data    |-> data,
         dtypes  |-> [j \in 1..Len(cols) |-> InferDtype(data, j)]]

\* dropna(subset=[first column]): only the first column is looked at
CompleteRowsFirstColumn(df) ==
    {i \in 1..Len(df.data) : df.data[i][1] # NaN}

\* the positions of the rows without a missing cell
CompleteRows(df) ==
    {i \in 1..Len(df.data) : \A j \in 1..Len(df.columns) : df.data[i][j] # NaN}

\* dropna(how="all"): only the rows missing every cell are dropped
dropna_all(df) ==
    LET keep == {i \in 1..Len(df.data) :
                    \E j \in 1..Len(df.columns) : df.data[i][j] # NaN}
    IN  [df EXCEPT !.index = SelectIdx(df.index, keep, 1),
                   !.data  = SelectIdx(df.data, keep, 1)]

dropna(df) ==
    LET keep == CompleteRows(df)
    IN  [df EXCEPT !.index = SelectIdx(df.index, keep, 1),
                   !.data  = SelectIdx(df.data, keep, 1)]

astype_float(df) ==
    [df EXCEPT !.dtypes = [j \in 1..Len(df.columns) |-> "float64"]]

HasColumn(df, c) == c \in Range(df.columns)

\* the column c as a Series
Column(df, c) ==
    LET k == IndexOf(df.columns, c)
    IN  [name   |-> c,
         index  |-> df.index,
         values |-> [i \in 1..Len(df.data) |-> df.data[i][k]],
         dtype  |-> df.dtypes[k]]

\* a pop by position that takes the first column whatever its name
PopRemovesFirst(df, c) == 1

\* the frame that DataFrame.pop(c) leaves behind
PopRemoves(df, c) == IndexOf(df.columns, c)

WithoutColumn(df, c) ==
    LET k == PopRemoves(df, c)
    IN  [df EXCEPT !.columns = RemoveAt(df.columns, k),
                   !.dtypes  = RemoveAt(df.dtypes, k),
                   !.data    = [i \in 1..Len(df.data) |-> RemoveAt(df.data[i], k)]]

\* a pop with a default: an empty Series in place of the KeyError
PopDefault(df, c) ==
    IF HasColumn(df, c)
    THEN [raised |-> FALSE, frame |-> WithoutColumn(df, c), series |-> Column(df, c)]
    ELSE [raised |-> FALSE, frame |-> df,
          series |-> [name |-> c, index |-> << >>, values |-> << >>, dtype |-> "float64"]]

\* DataFrame.pop(c): the column as a Series, the frame left without it; a
\* KeyError when the frame has no column c
Pop(df, c) ==
    IF HasColumn(df, c)
    THEN [raised |-> FALSE, frame |-> WithoutColumn(df, c), series |-> Column(df, c)]
    ELSE [raised |-> TRUE, frame |-> df]

Shape(df) == <<Len(df.data), Len(df.columns)>>

(***************************************************************************)
(* Tensor expressions: what the cells hand to the distributions.           *)
(***************************************************************************)
Const(v) == [op |-> "const", v |-> v]

Var(name) == [op |-> "var", name |-> name]

Data(v) == [op |-> "data", v |-> v]

Add(l, r) == [op |-> "add", l |-> l, r |-> r]

Mul(l, r) == [op |-> "mul", l |-> l, r |-> r]

\* pt.dot(matrix, vector variable)
Dot(m, r) == [op |-> "dot", m |-> m, r |-> r]

RECURSIVE DotRow(_, _, _)
DotRow(row, vec, j) ==
    IF j > Len(row) THEN 0 ELSE row[j] * vec[j] + DotRow(row, vec, j + 1)

\* the value of expression e at row i, the variables valued by env
RECURSIVE Eval(_, _, _)
Eval(e, env, i) ==
    CASE e.op = "const" -> e.v
      [] e.op = "var"   -> env[e.name]
      [] e.op = "data"  -> e.v[i]
      [] e.op = "add"   -> Eval(e.l, env, i) + Eval(e.r, env, i)
      [] e.op = "mul"   -> Eval(e.l, env, i) * Eval(e.r, env, i)
      [] e.op = "dot"   -> DotRow(e.m[i], env[e.r.name], 1)

(***************************************************************************)
(* PyMC models: the coordinates and the random variables registered so far.*)
(***************************************************************************)
NewModel(coords) == [coords |-> coords, rvs |-> << >>]

Normal(name, mu, sigma, dims) ==
    [name |-> name, dist |-> "Normal", params |-> [mu |-> mu, sigma |-> sigma],
     dims |-> dims, observed |-> FALSE, data |-> << >>]

Uniform(name, lower, upper) ==
    [name |-> name, dist |-> "Uniform", params |-> [lower |-> lower, upper |-> upper],
     dims |-> << >>, observed |-> FALSE, data |-> << >>]

HalfNormal(name, sigma) ==
    [name |-> name, dist |-> "HalfNormal", params |-> [sigma |-> sigma],
     dims |-> << >>, observed |-> FALSE, data |-> << >>]

Observed(rv, data) == [rv EXCEPT !.observed = TRUE, !.data = data]

RVNames(m) == {m.rvs[k].name : k \in 1..Len(m.rvs)}

HasRV(m, name) == name \in RVNames(m)

GetRV(m, name) == m.rvs[CHOOSE k \in 1..Len(m.rvs) : m.rvs[k].name = name]

Register(m, rv) == [m EXCEPT !.rvs = Append(m.rvs, rv)]

FreeRVs(m) == {k \in 1..Len(m.rvs) : ~m.rvs[k].observed}

ObservedRVs(m) == {k \in 1..Len(m.rvs) : m.rvs[k].observed}

\* the number of elements of a variable with dims; 0 dims is a scalar
DimLength(m, rv) == Len(m.coords)

(***************************************************************************)
(* The sampling engine, by the outcomes it can produce.  A draw from a     *)
(* distribution is one of a few representative points of its support.      *)
(***************************************************************************)
Support(dist, p) ==
    CASE dist = "Normal"     -> {p.mu - p.sigma, p.mu, p.mu + p.sigma}
      [] dist = "Uniform"    -> {p.lower, p.upper}
      [] dist = "HalfNormal" -> {0, p.sigma}

\* the parameters of rv at row i, the free variables valued by env
ParamsAt(rv, env, i) ==
    [f \in DOMAIN rv.params |-> Eval(rv.params[f], env, i)]

\* the values one draw of the free variable rv can take (its prior's
\* parameters are constants)
PriorValues(m, rv) ==
    LET s == Support(rv.dist, ParamsAt(rv, << >>, 1))
    IN  IF rv.dims = << >> THEN s ELSE [1..DimLength(m, rv) -> s]

\* the joint draws of the free variables among the first k variables of m
RECURSIVE EnvsOver(_, _)
EnvsOver(m, k) ==
    IF k = 0 THEN {<< >>}
    ELSE IF m.rvs[k].observed THEN EnvsOver(m, k - 1)
    ELSE {Bind(env, m.rvs[k].name, v) :
            env \in EnvsOver(m, k - 1), v \in PriorValues(m, m.rvs[k])}

\* the joint draws of the free variables of m
Envs(m) == EnvsOver(m, Len(m.rvs))

ObservedNames(m) == {m.rvs[k].name : k \in ObservedRVs(m)}

FreeNames(m) == {m.rvs[k].name : k \in FreeRVs(m)}

\* draws that condition on the data: every element is its observed value
sample_conditioned(m, samples) ==
    [prior |-> FreeNames(m),
     prior_predictive |->
        [n \in ObservedNames(m) |->
            LET rv == GetRV(m, n)
            IN  [draw   |-> samples,
                 obs    |-> Len(rv.data),
                 values |-> [i \in 1..Len(rv.data) |-> {rv.data[i]}]]]]

\* pm.sample_prior_predictive(samples): for every observed variable, `samples`
\* draws of a vector as long as its data; each element is drawn from the
\* likelihood at a joint draw of the priors
sample_prior_predictive(m, samples) ==
    [prior |-> FreeNames(m),
     prior_predictive |->
        [n \in ObservedNames(m) |->
            LET rv == GetRV(m, n)
            IN  [draw   |-> samples,
                 obs    |-> Len(rv.data),
                 values |-> [i \in 1..Len(rv.data) |->
                               UNION {Support(rv.dist, ParamsAt(rv, env, i)) :
                                        env \in Envs(m)}]]]]

\* pm.sample(): posterior draws of every free variable, labelled by its
\* coordinates, conditioned on the observed data
pm_sample(m) ==
    [posterior |->
        [n \in FreeNames(m) |->
            LET rv == GetRV(m, n)
            IN  [dims   |-> rv.dims,
                 labels |-> IF rv.dims = << >> THEN << >> ELSE m.coords]],
     observed_data |-> [n \in ObservedNames(m) |-> GetRV(m, n).data]]

(***************************************************************************)
(* The cells.                                                              *)
(***************************************************************************)
Init ==
    /\ csv \in CsvFiles
    /\ ns = << >>
    /\ err = NoErr

\* test_scores = pd.read_csv(pm.get_data("test_scores.csv"), index_col=0)
ReadCsv ==
    /\ Running
    /\ ns' = Bind(ns, "test_scores", read_csv(csv))
    /\ UNCHANGED <<csv, err>>

Step(space, e) == [ns |-> space, err |-> e]

Ok(space) == Step(space, NoErr)

\* test_scores.dropna().astype(float)
LoadedFrame(df) == astype_float(dropna(df))

\* the shape taken before the pop: D counts the score column
ShapeBeforePop(full, X) == Shape(full)

\* N, D = X.shape, X being the frame the pop left behind
LoaderShape(full, X) == Shape(X)

\* X = test_scores.dropna().astype(float); y = X.pop("score"); N, D = X.shape
LoadCell(space) ==
    IF "test_scores" \notin DOMAIN space
    THEN Step(space, Raise("load", "NameError", "test_scores"))
    ELSE LET full   == LoadedFrame(space["test_scores"])
             popped == Pop(full, "score")
             s1     == Bind(space, "X", popped.frame)
         IN  IF popped.raised
             THEN Step(s1, Raise("load", "KeyError", "score"))
             ELSE LET shape == LoaderShape(full, popped.frame)
                  IN  Ok(Bind(Bind(Bind(s1, "y", popped.series),
                              "N", shape[1]), "D", shape[2]))

Load ==
    /\ Running
    /\ LET r == LoadCell(ns)
       IN  ns' = r.ns /\ err' = r.err
    /\ UNCHANGED csv

\* basic_model = pm.Model()
BasicNew ==
    /\ Running
    /\ ns' = Bind(ns, "basic_model", NewModel(<< >>))
    /\ UNCHANGED <<csv, err>>

\* the priors and the likelihood of the naive model
BasicMu == Normal("mu", Const(100), Const(20), << >>)

BasicSigma == Uniform("sigma", Const(0), Const(50))

BasicScore(data) ==
    Observed(Normal("score", Var("mu"), Var("sigma"), << >>), data)

\* with basic_model: mu = ...; sigma = ...; score = ...(observed=y)
BasicDefineCell(space) ==
    IF "basic_model" \notin DOMAIN space
    THEN Step(space, Raise("basic_define", "NameError", "basic_model"))
    ELSE IF HasRV(space["basic_model"], "mu")
    THEN Step(space, Raise("basic_define", "ValueError", "mu"))
    ELSE LET m1 == Register(Register(space["basic_model"], BasicMu), BasicSigma)
             s1 == Bind(Bind(Bind(space, "basic_model", m1),
                        "mu", Var("mu")), "sigma", Var("sigma"))
         IN  IF "y" \notin DOMAIN space
             THEN Step(s1, Raise("basic_define", "NameError", "y"))
             ELSE Ok(Bind(Bind(s1,
                     "basic_model", Register(m1, BasicScore(space["y"].values))),
                     "score", Var("score")))

BasicDefine ==
    /\ Running
    /\ LET r == BasicDefineCell(ns)
       IN  ns' = r.ns /\ err' = r.err
    /\ UNCHANGED csv

\* the requested number of prior-predictive draws
Samples == 500

\* with basic_model: prior_pred = pm.sample_prior_predictive(samples=500)
\* az.plot_dist(prior_pred.prior_predictive['score'], ...)
PriorPredictiveCell(space) ==
    IF "basic_model" \notin DOMAIN space
    THEN Step(space, Raise("prior_predictive", "NameError", "basic_model"))
    ELSE LET pp == sample_prior_predictive(space["basic_model"], Samples)
             s1 == Bind(space, "prior_pred", pp)
         IN  IF "score" \notin DOMAIN pp.prior_predictive
             THEN Step(s1, Raise("prior_predictive", "KeyError", "score"))
             ELSE Ok(s1)

PriorPredictive ==
    /\ Running
    /\ LET r == PriorPredictiveCell(ns)
       IN  ns' = r.ns /\ err' = r.err
    /\ UNCHANGED csv

\* every sampling cell binding the one name idata
ResultNameShared(model) == "idata"

\* the name each sampling cell binds its result to
ResultName(model) ==
    CASE model = "basic_model"  -> "idata"
      [] model = "simple_model" -> "idata_simple"
      [] model = "multi_model"  -> "idata_multi"

\* with <model>: <result> = pm.sample()
SampleCell(space, model) ==
    IF model \notin DOMAIN space
    THEN Step(space, Raise("sample", "NameError", model))
    ELSE IF FreeNames(space[model]) = {}
    THEN Step(space, Raise("sample", "SamplingError", model))
    ELSE Ok(Bind(space, ResultName(model), pm_sample(space[model])))

SampleBasic ==
    /\ Running
    /\ LET r == SampleCell(ns, "basic_model")
       IN  ns' = r.ns /\ err' = r.err
    /\ UNCHANGED csv

SampleSimple ==
    /\ Running
    /\ LET r == SampleCell(ns, "simple_model")
       IN  ns' = r.ns /\ err' = r.err
    /\ UNCHANGED csv

SampleMulti ==
    /\ Running
    /\ LET r == SampleCell(ns, "multi_model")
       IN  ns' = r.ns /\ err' = r.err
    /\ UNCHANGED csv

\* the priors of the two regression models
Alpha == Normal("alpha", Const(100), Const(50), << >>)

SimpleBeta == Normal("beta", Const(0), Const(10), << >>)

SimpleSigma == HalfNormal("sigma", Const(25))

\* intercept and slope swapped: beta + alpha * siblings
SimpleMuSwapped(X) ==
    Add(Var("beta"), Mul(Var("alpha"), Data(Column(X, "siblings").values)))

\* mu = alpha + beta * X['siblings'].values
SimpleMu(X) == Add(Var("alpha"), Mul(Var("beta"), Data(Column(X, "siblings").values)))

\* with pm.Model() as simple_model: alpha, beta, sigma, mu, score
SimpleModelCell(space) ==
    LET m1 == Register(Register(Register(NewModel(<< >>), Alpha), SimpleBeta), SimpleSigma)
        s1 == Bind(Bind(Bind(Bind(space, "simple_model", m1),
                   "alpha", Var("alpha")), "beta", Var("beta")), "sigma", Var("sigma"))
    IN  IF "X" \notin DOMAIN space
        THEN Step(s1, Raise("simple_model", "NameError", "X"))
        ELSE IF ~HasColumn(space["X"], "siblings")
        THEN Step(s1, Raise("simple_model", "KeyError", "siblings"))
        ELSE LET mu == SimpleMu(space["X"])
                 s2 == Bind(s1, "mu", mu)
             IN  IF "y" \notin DOMAIN space
                 THEN Step(s2, Raise("simple_model", "NameError", "y"))
                 ELSE Ok(Bind(Bind(s2,
                         "simple_model",
                         Register(m1, Observed(Normal("score", mu, Var("sigma"), << >>),
                                               space["y"].values))),
                         "score", Var("score")))

SimpleModel ==
    /\ Running
    /\ LET r == SimpleModelCell(ns)
       IN  ns' = r.ns /\ err' = r.err
    /\ UNCHANGED csv

\* coords = {"predictors": X.columns.values}
Coords(X) == X.columns

MultiBeta == Normal("beta", Const(0), Const(10), <<"predictors">>)

MultiSigma == Uniform("sigma", Const(0), Const(20))

\* the line the cell keeps commented out: sigma + pt.dot(X.values, beta)
MultiLocationSigma(X) == Add(Var("sigma"), Dot(X.data, Var("beta")))

\* alpha + pt.dot(X.values, beta)
MultiLocation(X) == Add(Var("alpha"), Dot(X.data, Var("beta")))

\* pt.dot of an N x D matrix with a vector needs a vector of length D
DotCompatible(X, m) == Len(X.columns) = Len(m.coords)

\* coords; with pm.Model(coords=coords) as multi_model: alpha, beta, sigma, score
MultiModelCell(space) ==
    IF "X" \notin DOMAIN space
    THEN Step(space, Raise("multi_model", "NameError", "X"))
    ELSE LET X  == space["X"]
             m1 == Register(Register(Register(NewModel(Coords(X)), Alpha),
                            MultiBeta), MultiSigma)
             s1 == Bind(Bind(Bind(Bind(Bind(space, "coords", Coords(X)),
                        "multi_model", m1),
                        "alpha", Var("alpha")), "beta", Var("beta")), "sigma", Var("sigma"))
         IN  IF "y" \notin DOMAIN space
             THEN Step(s1, Raise("multi_model", "NameError", "y"))
             ELSE IF ~DotCompatible(X, m1)
             THEN Step(s1, Raise("multi_model", "ValueError", "dot"))
             ELSE Ok(Bind(Bind(s1,
                     "multi_model",
                     Register(m1, Observed(Normal("score", MultiLocation(X), Var("sigma"),
                                                  << >>),
                                           space["y"].values))),
                     "score", Var("score")))

MultiModel ==
    /\ Running
    /\ LET r == MultiModelCell(ns)
       IN  ns' = r.ns /\ err' = r.err
    /\ UNCHANGED csv

Next ==
    \/ ReadCsv
    \/ Load
    \/ BasicNew
    \/ BasicDefine
    \/ PriorPredictive
    \/ SampleBasic
    \/ SimpleModel
    \/ SampleSimple
    \/ MultiModel
    \/ SampleMulti

Spec == Init /\ [][Next]_vars

(***************************************************************************)
(* What the claims talk about, stated on the CSV file itself.              *)
(***************************************************************************)
\* the rows of the file with no missing data field
SourceCompleteRows ==
    {i \in 1..Len(csv.rows) : \A j \in 2..Len(csv.header) : csv.rows[i][j] # NaN}

SourceHasScore == \E j \in 2..Len(csv.header) : csv.header[j] = "score"

\* the load cell ran to its end
Loaded == Bound("X") /\ Bound("y") /\ Bound("N") /\ Bound("D")

\* the model bound to name has its likelihood: its cell ran to its end
Built(name) == Bound(name) /\ HasRV(ns[name], "score")

NoMissing(seq) == \A i \in 1..Len(seq) : seq[i] # NaN

(***************************************************************************)
(* C1: after the load cell, the predictor matrix X and the response y have *)
(* the same number of rows N, N is the number of rows of the source that   *)
(* had no missing value in any column, and no cell of X or y is missing.   *)
(***************************************************************************)
C1_LoadedShapes ==
    Loaded =>
        /\ Len(ns["X"].data) = ns["N"]
        /\ Len(ns["y"].values) = ns["N"]
        /\ ns["N"] = Cardinality(SourceCompleteRows)
        /\ \A i \in 1..Len(ns["X"].data) : NoMissing(ns["X"].data[i])
        /\ NoMissing(ns["y"].values)

\* a load that kept a row and dropped a row
C1_Witness ==
    /\ Loaded
    /\ ns["N"] >= 1
    /\ ns["N"] < Len(csv.rows)

(***************************************************************************)
(* C2 as claimed: when every row of the source has a missing value, the    *)
(* load cell fails with an error and produces no X and y.                  *)
(***************************************************************************)
C2_EmptyDatasetFails ==
    (SourceCompleteRows = {} /\ SourceHasScore /\ Bound("X")) =>
        (err.cell = "load" /\ ~Bound("y"))

(***************************************************************************)
(* C2 as amended: when every row of the source has a missing value and the *)
(* score column is present, the load cell raises nothing: it binds an X of *)
(* zero rows, a y of zero values and N = 0, and the model cells take them  *)
(* as their observed data.                                                 *)
(***************************************************************************)
C2_EmptyDatasetLoads ==
    (SourceCompleteRows = {} /\ SourceHasScore /\ Bound("X")) =>
        /\ err.cell # "load"
        /\ Loaded
        /\ ns["X"].data = << >>
        /\ ns["y"].values = << >>
        /\ ns["N"] = 0
        /\ \A m \in {"basic_model", "simple_model", "multi_model"} :
              Built(m) => GetRV(ns[m], "score").data = << >>

\* every row had a missing value, the load went through and a model observes
\* the empty response
C2_Witness ==
    /\ Len(csv.rows) >= 1
    /\ SourceCompleteRows = {}
    /\ Loaded
    /\ Running
    /\ Built("multi_model")
    /\ GetRV(ns["multi_model"], "score").data = << >>

(***************************************************************************)
(* C3 as claimed: when the source has no score column the load cell fails  *)
(* with a KeyError, nothing runs after it, and neither a predictor matrix  *)
(* nor a response vector is produced.                                      *)
(***************************************************************************)
C3_NoScoreProducesNothing ==
    (~SourceHasScore /\ Bound("test_scores")) =>
        /\ ~Bound("X")
        /\ ~Bound("y")
        /\ err.cell = "load" => err = Raise("load", "KeyError", "score")

(***************************************************************************)
(* C3 as amended: when the source has no score column the load cell fails  *)
(* with KeyError 'score'; y, N and D are never bound, no model gets a      *)
(* likelihood and nothing is sampled; but X is left bound to the filtered  *)
(* table, which the cell assigns before the pop raises.                    *)
(***************************************************************************)
C3_NoScoreFailsAtPop ==
    ~SourceHasScore =>
        /\ ~Bound("y") /\ ~Bound("N") /\ ~Bound("D")
        /\ (Bound("test_scores") /\ err.cell = "load") =>
              err = Raise("load", "KeyError", "score")
        /\ err = Raise("load", "KeyError", "score") => Bound("X")
        /\ Bound("X") =>
              /\ err = Raise("load", "KeyError", "score")
              /\ ns["X"] = astype_float(dropna(ns["test_scores"]))
        /\ \A m \in {"basic_model", "simple_model", "multi_model"} : ~Built(m)
        /\ \A r \in {"idata", "idata_simple", "idata_multi"} : ~Bound(r)
        /\ Bound("prior_pred") => ns["prior_pred"].prior_predictive = << >>

\* the load cell has failed on a table without score
C3_Witness ==
    /\ ~SourceHasScore
    /\ Len(csv.rows) >= 1
    /\ err = Raise("load", "KeyError", "score")
    /\ Bound("X")

DocumentedMultiPriors ==
    [alpha |-> Normal("alpha", Const(100), Const(50), << >>),
     beta  |-> Normal("beta", Const(0), Const(10), <<"predictors">>),
     sigma |-> HalfNormal("sigma", Const(25))]

(***************************************************************************)
(* C5 as claimed: the multi-predictor model declares the priors the        *)
(* notebook documents for it: alpha ~ Normal(100, 50), every beta_j ~      *)
(* Normal(0, 10), sigma ~ HalfNormal(25).                                  *)
(***************************************************************************)
C5_MultiPriorsAsDocumented ==
    Built("multi_model") =>
        \A n \in {"alpha", "beta", "sigma"} :
            GetRV(ns["multi_model"], n) = DocumentedMultiPriors[n]

\* the siblings value of row i of X, read from the source file
SourceSiblings(i) ==
    csv.rows[ns["X"].index[i]][CHOOSE j \in 2..Len(csv.header) : csv.header[j] = "siblings"]

(***************************************************************************)
(* C6: in the simple model the location of the likelihood at row i is the  *)
(* intercept plus the slope times that row's siblings value, for every     *)
(* intercept and slope; with siblings all zero it is the intercept.        *)
(***************************************************************************)
C6_SimpleLinearPredictor ==
    Built("simple_model") =>
        LET score == GetRV(ns["simple_model"], "score")
        IN  /\ Len(score.data) = ns["N"]
            /\ \A env \in Envs(ns["simple_model"]) : \A i \in 1..ns["N"] :
                  /\ Eval(score.params.mu, env, i)
                        = env["alpha"] + env["beta"] * SourceSiblings(i)
                  /\ (\A k \in 1..ns["N"] : SourceSiblings(k) = 0) =>
                        Eval(score.params.mu, env, i) = env["alpha"]

\* a simple model over a row without siblings and a row with siblings
C6_Witness ==
    /\ Built("simple_model")
    /\ ns["N"] = 2
    /\ SourceSiblings(1) = 0
    /\ SourceSiblings(2) # 0

\* a simple model whose predictor vector is all zeros
C6_WitnessZeros ==
    /\ Built("simple_model")
    /\ ns["N"] = 2
    /\ \A k \in 1..2 : SourceSiblings(k) = 0

\* the sum of w[j] * row[j] over the first n columns
RECURSIVE WeightedSum(_, _, _)
WeightedSum(row, w, n) ==
    IF n = 0 THEN 0 ELSE WeightedSum(row, w, n - 1) + w[n] * row[n]

(***************************************************************************)
(* C7: in the multi-predictor model the location of the likelihood at row  *)
(* i is alpha plus the dot product of the slopes with row i of X; sigma    *)
(* does not enter it; with no predictors it is alpha.                      *)
(***************************************************************************)
C7_MultiLinearPredictor ==
    Built("multi_model") =>
        LET score == GetRV(ns["multi_model"], "score")
        IN  /\ score.params.sigma = Var("sigma")
            /\ \A env \in Envs(ns["multi_model"]) : \A i \in 1..ns["N"] :
                  /\ Eval(score.params.mu, env, i)
                        = env["alpha"] + WeightedSum(ns["X"].data[i], env["beta"], ns["D"])
                  /\ ns["D"] = 0 => Eval(score.params.mu, env, i) = env["alpha"]

\* a multi-predictor model over two predictors and a row where both count
C7_Witness ==
    /\ Built("multi_model")
    /\ ns["D"] = 2
    /\ ns["N"] >= 1
    /\ \A j \in 1..2 : ns["X"].data[1][j] # 0

\* a multi-predictor model without predictors, over at least one row
C7_WitnessNoPredictors ==
    /\ Built("multi_model")
    /\ ns["D"] = 0
    /\ ns["N"] >= 1

\* model m observing other in place of its data
Reobserve(m, other) ==
    [m EXCEPT !.rvs = [k \in 1..Len(m.rvs) |->
                          IF m.rvs[k].observed
                          THEN [m.rvs[k] EXCEPT !.data = other]
                          ELSE m.rvs[k]]]

\* the response vectors as long as y
OtherResponses == [1..Len(ns["y"].values) -> 0..(MaxVal + 1)]

Kept(names) ==
    \A n \in names :
        /\ (n \in DOMAIN ns) = (n \in DOMAIN ns')
        /\ n \in DOMAIN ns => ns'[n] = ns[n]

(***************************************************************************)
(* C9: a sampling cell leaves the other two models, the results of the     *)
(* other two models, and X and y as they were; so does the building of a   *)
(* later model, which rebinds the names mu, sigma, alpha, beta and score.  *)
(***************************************************************************)
C9_SamplingFrame ==
    [][ /\ SampleBasic =>
              Kept({"simple_model", "multi_model", "idata_simple", "idata_multi", "X", "y"})
        /\ SampleSimple =>
              Kept({"basic_model", "multi_model", "idata", "idata_multi", "X", "y"})
        /\ SampleMulti =>
              Kept({"basic_model", "simple_model", "idata", "idata_simple", "X", "y"})
        /\ (BasicDefine \/ SimpleModel \/ MultiModel) =>
              Kept({"idata", "idata_simple", "idata_multi", "X", "y"})
        /\ SimpleModel => Kept({"basic_model", "multi_model"})
        /\ MultiModel => Kept({"basic_model", "simple_model"})
      ]_vars

\* all three models sampled, the simple model's mu bound in the namespace
\* after the naive model's
C9_Witness ==
    /\ Running
    /\ Built("basic_model") /\ Built("simple_model") /\ Built("multi_model")
    /\ Bound("idata") /\ Bound("idata_simple") /\ Bound("idata_multi")
    /\ ns["mu"] # Var("mu")

\* the position in the file's header of the column named c
SourcePosition(c) == CHOOSE j \in 2..Len(csv.header) : csv.header[j] = c

(***************************************************************************)
(* C10: the slopes of the multi-predictor model are labelled by the        *)
(* columns of X in their order, slope j multiplies the source column of    *)
(* that name, score and the row-index column are no predictors, and D is   *)
(* the source's column count minus one.                                    *)
(***************************************************************************)
C10_SlopesAlignWithColumns ==
    Built("multi_model") =>
        LET m     == ns["multi_model"]
            score == GetRV(m, "score")
        IN  /\ m.coords = ns["X"].columns
            /\ Len(m.coords) = ns["D"]
            /\ ns["D"] = Len(ns["test_scores"].columns) - 1
            /\ ns["D"] = Len(csv.header) - 2
            /\ "score" \notin Range(m.coords)
            /\ IndexName \notin Range(m.coords)
            /\ \A j \in 1..ns["D"] : \E k \in 2..Len(csv.header) : csv.header[k] = m.coords[j]
            /\ score.params.mu.r.m = ns["X"].data
            /\ \A i \in 1..ns["N"] : \A j \in 1..ns["D"] :
                  score.params.mu.r.m[i][j]
                      = csv.rows[ns["X"].index[i]][SourcePosition(m.coords[j])]
            /\ Bound("idata_multi") =>
                  ns["idata_multi"].posterior["beta"].labels = m.coords

\* a sampled multi-predictor model over the two columns around score
C10_Witness ==
    /\ Built("multi_model")
    /\ Bound("idata_multi")
    /\ ns["multi_model"].coords = <<"siblings", "male">>
    /\ ns["N"] >= 1

====
